---- MODULE Spec2Model ----
(***************************************************************************)
(* Model of the postmortem engine of smart-logistics-postmortem:           *)
(*   engine.py / analyze_logs.py : extract_order_id, load_logs,            *)
(*                                 build_incidents, classify_root_cause    *)
(*   repo_sql.py / api_sql.py    : upsert_incident, kpis, /refresh, /kpis  *)
(*                                                                         *)
(* Python values are tagged records [t, v]: a str is [t |-> "str",         *)
(* v |-> <<characters>>], None is [t |-> "None"], a float NaN (a missing   *)
(* CSV cell) is [t |-> "float"].  Text is kept character by character so   *)
(* that the regular expressions, strip() and lower() are computed, not     *)
(* assumed.                                                                *)
(***************************************************************************)
EXTENDS Integers, Sequences, FiniteSets, TLC

VARIABLES
    pc,             \* position of the caller: "ready" before a call, "done" after
    message,        \* argument of extract_order_id
    order_id,       \* value returned by extract_order_id
    failure_detail, \* argument of classify_root_cause
    root_cause,     \* value returned by classify_root_cause
    logfile,        \* rows of logs_sample.csv, in file order
    sortMemo,       \* argsort results of this build, per key array seen so far
    incidents,      \* list returned by the latest build_incidents
    runs,           \* number of completed load_logs + build_incidents runs
    firstRun,       \* list returned by the first run
    table,          \* committed rows of the incidents table
    kpi,            \* value returned by the latest kpis call
    fileExists,     \* LOG_FILE.exists()
    session,        \* per request in flight: its position and its SQLAlchemy session
    apiKey,         \* engine.GEMINI_API_KEY of the running process
    modelName,      \* engine.GEMINI_MODEL of the running process
    postmortems,    \* committed rows of the postmortems table
    reply,          \* answer to the latest post-mortem request
    orders_db,      \* order-service: the in-memory dict order_id -> Order
    clock,          \* order-service: datetime.now(), in seconds
    oslog,          \* order-service: log records emitted by the latest call
    outcome         \* order-service: response to the latest call

\* POST /refresh in flight and the log file on disk
refreshVars == <<fileExists, session>>

\* the post-mortem cache
postmortemVars == <<apiKey, modelName, postmortems, reply>>

\* the order service
orderVars == <<orders_db, clock, oslog, outcome>>

\* the state of the services, which the calls of the pure functions and the
\* single-request runs leave alone
serviceVars == <<refreshVars, postmortemVars, orderVars>>

vars == <<pc, message, order_id, failure_detail, root_cause, logfile,
          sortMemo, incidents, runs, firstRun, table, kpi, fileExists, session,
          apiKey, modelName, postmortems, reply, orders_db, clock, oslog, outcome>>

(***************************************************************************)
(* Python values                                                           *)
(***************************************************************************)
Str(s) == [t |-> "str", v |-> s]
None == [t |-> "None", v |-> <<>>]
NaN == [t |-> "float", v |-> <<>>]
Unset == [t |-> "unset", v |-> <<>>]

\* the requests the server may be handling at the same time
Requests == {"first", "second"}

\* a request that has not arrived: no batch built, nothing in its session, no
\* HTTP status yet
NoRequest == [pc |-> "idle", todo |-> <<>>, units |-> <<>>, code |-> 0]

\* os.getenv("GEMINI_MODEL", "gemini-flash-latest") with the variable not set
DEFAULT_MODEL == "gemini-flash-latest"

\* no refresh in flight and logs_sample.csv present
IdleRefresh ==
    /\ fileExists = TRUE
    /\ session = [r \in Requests |-> NoRequest]

\* no key, the default model, an empty postmortems table, no request yet
IdlePostmortem ==
    /\ apiKey = None
    /\ modelName = DEFAULT_MODEL
    /\ postmortems = <<>>
    /\ reply = Unset

\* the order service just started: orders_db = {}
IdleOrders ==
    /\ orders_db = <<>>
    /\ clock = 0
    /\ oslog = <<>>
    /\ outcome = Unset

IdleService == IdleRefresh /\ IdlePostmortem /\ IdleOrders

StartsWithAt(s, i, p) ==
    /\ i >= 1
    /\ i + Len(p) - 1 <= Len(s)
    /\ \A k \in 1..Len(p) : s[i + k - 1] = p[k]

\* least index >= i at which p occurs in s, 0 when there is none (str.find / `in`)
RECURSIVE FindFrom(_, _, _)
FindFrom(s, i, p) ==
    IF i + Len(p) - 1 > Len(s) THEN 0
    ELSE IF StartsWithAt(s, i, p) THEN i
    ELSE FindFrom(s, i + 1, p)

Contains(s, p) == FindFrom(s, 1, p) # 0

(***************************************************************************)
(* extract_order_id: ORDER_ID_REGEX = (ORD-(?:PROC-)?\d+), re.search       *)
(***************************************************************************)
Digits == {"0", "1", "2", "3", "4", "5", "6", "7", "8", "9"}
ORD == <<"O", "R", "D", "-">>
PROC == <<"P", "R", "O", "C", "-">>

\* index just past the greedy run \d* that starts at i
RECURSIVE DigitsEnd(_, _)
DigitsEnd(s, i) ==
    IF i <= Len(s) /\ s[i] \in Digits THEN DigitsEnd(s, i + 1) ELSE i

\* index just past the match of the pattern anchored at i, 0 when it does not
\* match there: the optional group is tried first and given up on backtracking
MatchEndAt(s, i) ==
    IF ~StartsWithAt(s, i, ORD) THEN 0
    ELSE LET j == i + Len(ORD)
             k == j + Len(PROC)
         IN  IF StartsWithAt(s, j, PROC) /\ DigitsEnd(s, k) > k
                 THEN DigitsEnd(s, k)
             ELSE IF DigitsEnd(s, j) > j THEN DigitsEnd(s, j)
             ELSE 0

\* re.search: the anchors are tried left to right, the first match is returned
RECURSIVE RegexSearchFrom(_, _)
RegexSearchFrom(s, i) ==
    IF i > Len(s) THEN None
    ELSE IF MatchEndAt(s, i) # 0 THEN Str(SubSeq(s, i, MatchEndAt(s, i) - 1))
    ELSE RegexSearchFrom(s, i + 1)

RECURSIVE RegexSearchLastFrom(_, _)
RegexSearchLastFrom(s, i) ==
    IF i < 1 THEN None
    ELSE IF MatchEndAt(s, i) # 0 THEN Str(SubSeq(s, i, MatchEndAt(s, i) - 1))
    ELSE RegexSearchLastFrom(s, i - 1)

ORDER_ID_REGEX_last(s) == RegexSearchLastFrom(s, Len(s))

ORDER_ID_REGEX_search(s) == RegexSearchFrom(s, 1)

extract_order_id(m) ==
    IF m.t # "str" THEN None ELSE ORDER_ID_REGEX_search(m.v)

(***************************************************************************)
(* load_logs: the CSV rows become a frame sorted by timestamp              *)
(***************************************************************************)
NAN_TEXT == <<"n", "a", "n">>

\* df["message"].astype(str)
astype_str(cell) == IF cell.t = "str" THEN cell.v ELSE NAN_TEXT

\* df["severityLevel"].fillna(0).astype(int)
fillna_int(cell) == IF cell.t = "float" THEN 0 ELSE cell.v

normalize_row(raw) ==
    [timestamp |-> raw.timestamp,
     message |-> astype_str(raw.message),
     severityLevel |-> fillna_int(raw.severityLevel),
     order_id |-> extract_order_id(Str(astype_str(raw.message)))]

Column(frame, col) == [i \in 1..Len(frame) |-> frame[i][col]]

Permute(frame, p) == [i \in 1..Len(frame) |-> frame[p[i]]]

\* The permutations an argsort of `keys` may return.  sort_values is called
\* without kind=, so pandas hands the keys to numpy's default quicksort, which
\* orders the keys and promises nothing about the order of equal keys.
SortingPerms(keys) ==
    LET n == Len(keys)
    IN  {p \in [1..n -> 1..n] :
            /\ \A i, j \in 1..n : i # j => p[i] # p[j]
            /\ \A i \in 1..(n - 1) : keys[p[i]] <= keys[p[i + 1]]}

\* The sort is a deterministic routine: the same key array is always permuted
\* the same way.  sortMemo records the permutation of every array sorted so far.
ArgsortChoices(memo, keys) ==
    IF keys \in DOMAIN memo THEN {memo[keys]} ELSE SortingPerms(keys)

Remember(memo, keys, p) ==
    IF keys \in DOMAIN memo THEN memo ELSE (keys :> p) @@ memo

\* every way of fixing the permutations of the key arrays in `needed`
RECURSIVE Resolve(_, _)
Resolve(memo, needed) ==
    IF needed \subseteq DOMAIN memo THEN {memo}
    ELSE LET k == CHOOSE x \in needed : x \notin DOMAIN memo
         IN  UNION {Resolve(Remember(memo, k, p), needed) : p \in SortingPerms(k)}

\* load_logs on an existing file: the possible (frame, memo) results
load_logs(file, memo) ==
    LET df == [i \in 1..Len(file) |-> normalize_row(file[i])]
        keys == Column(df, "timestamp")
    IN  {[df |-> Permute(df, p), memo |-> Remember(memo, keys, p)] :
            p \in ArgsortChoices(memo, keys)}

(***************************************************************************)
(* build_incidents                                                         *)
(***************************************************************************)
ERROR_LEVEL == 3
DETAIL == <<"d", "e", "t", "a", "i", "l", "=">>
Whitespace == {" ", "\t", "\n", "\r"}

\* code point order of the characters that occur in the modelled texts
AsciiOrder ==
    <<"\t", "\n", "\r", " ", "-", "0", "1", "2", "3", "4", "5", "6", "7", "8",
      "9", "=", "A", "B", "C", "D", "E", "F", "G", "H", "I", "J", "K", "L", "M",
      "N", "O", "P", "Q", "R", "S", "T", "U", "V", "W", "X", "Y", "Z", "a", "b",
      "c", "d", "e", "f", "g", "h", "i", "j", "k", "l", "m", "n", "o", "p", "q",
      "r", "s", "t", "u", "v", "w", "x", "y", "z">>

CodePoint(c) == CHOOSE i \in 1..Len(AsciiOrder) : AsciiOrder[i] = c

RECURSIVE StrLess(_, _)
StrLess(a, b) ==
    IF b = <<>> THEN FALSE
    ELSE IF a = <<>> THEN TRUE
    ELSE IF Head(a) = Head(b) THEN StrLess(Tail(a), Tail(b))
    ELSE CodePoint(Head(a)) < CodePoint(Head(b))

\* groupby("order_id") iterates the distinct keys in sorted order
RECURSIVE SortedKeys(_)
SortedKeys(keys) ==
    IF keys = {} THEN <<>>
    ELSE LET least == CHOOSE k \in keys :
                          \A o \in keys : o = k \/ StrLess(k.v, o.v)
         IN  <<least>> \o SortedKeys(keys \ {least})

has_errors_above(group) == \E i \in 1..Len(group) : group[i].severityLevel > ERROR_LEVEL

\* (group["severityLevel"] >= 3).any()
has_error(group) == \E i \in 1..Len(group) : group[i].severityLevel >= ERROR_LEVEL

status_of(group) == IF has_error(group) THEN "FAILED" ELSE "SUCCESS"

\* group["timestamp"].min()
min_timestamp(group) ==
    CHOOSE t \in {group[i].timestamp : i \in 1..Len(group)} :
        \A i \in 1..Len(group) : t <= group[i].timestamp

\* group["timestamp"].max()
max_timestamp(group) ==
    CHOOSE t \in {group[i].timestamp : i \in 1..Len(group)} :
        \A i \in 1..Len(group) : t >= group[i].timestamp

reversed_seconds(start, end) == start - end

\* (end_time - start_time).total_seconds()
total_seconds(start, end) == end - start

IsErrorRow(r) == r.severityLevel >= ERROR_LEVEL

\* group[group["severityLevel"] >= 3]
error_rows(group) == SelectSeq(group, IsErrorRow)

\* index just past the run of characters `.` matches: it stops at a line feed
RECURSIVE DotStarEnd(_, _)
DotStarEnd(s, i) ==
    IF i <= Len(s) /\ s[i] # "\n" THEN DotStarEnd(s, i + 1) ELSE i

RECURSIVE LStrip(_)
LStrip(s) ==
    IF s # <<>> /\ Head(s) \in Whitespace THEN LStrip(Tail(s)) ELSE s

RECURSIVE RStrip(_)
RStrip(s) ==
    IF s # <<>> /\ s[Len(s)] \in Whitespace
    THEN RStrip(SubSeq(s, 1, Len(s) - 1)) ELSE s

\* str.strip()
strip(s) == RStrip(LStrip(s))

\* m = re.search(r"detail=(.*)", msg); m.group(1).strip() if m else msg
detail_of(msg) ==
    LET i == FindFrom(msg, 1, DETAIL)
        j == i + Len(DETAIL)
    IN  IF i = 0 THEN msg
        ELSE strip(SubSeq(msg, j, DotStarEnd(msg, j) - 1))

first_error(rows) == rows[1]

\* error_rows.iloc[-1]
last_error(rows) == rows[Len(rows)]

failure_detail_always(group) == Str(detail_of(group[Len(group)].message))

\* lines 72-77: None unless the group has an error row
failure_detail_of(group) ==
    LET rows == error_rows(group)
    IN  IF rows = <<>> THEN None
        ELSE Str(detail_of(last_error(rows).message))

\* the dict appended for one group, `group` being the re-sorted group
make_incident(oid, group) ==
    [order_id |-> oid,
     status |-> status_of(group),
     start_time |-> min_timestamp(group),
     end_time |-> max_timestamp(group),
     duration_seconds |-> total_seconds(min_timestamp(group), max_timestamp(group)),
     event_count |-> Len(group),
     failure_detail |-> failure_detail_of(group),
     messages |-> Column(group, "message")]

HasOrderId(r) == r.order_id # None

df_unfiltered(df) == df

\* df[df["order_id"].notna()]
df_orders(df) == SelectSeq(df, HasOrderId)

\* the distinct keys of df_orders.groupby("order_id")
groupby_keys(rows) == {rows[i].order_id : i \in 1..Len(rows)}

\* the rows of one group, in frame order
RECURSIVE GroupRows(_, _)
GroupRows(rows, oid) ==
    IF rows = <<>> THEN <<>>
    ELSE IF Head(rows).order_id = oid
         THEN <<Head(rows)>> \o GroupRows(Tail(rows), oid)
         ELSE GroupRows(Tail(rows), oid)

\* build_incidents: the possible (incidents, memo) results; each group is
\* sorted again by timestamp before its incident is derived
build_incidents(df, memo) ==
    LET rows == df_orders(df)
        keys == SortedKeys(groupby_keys(rows))
        grps == [i \in 1..Len(keys) |-> GroupRows(rows, keys[i])]
        times == [i \in 1..Len(keys) |-> Column(grps[i], "timestamp")]
        needed == {times[i] : i \in 1..Len(keys)}
    IN  {[incidents |->
             [i \in 1..Len(keys) |->
                 make_incident(keys[i], Permute(grps[i], m[times[i]]))],
          memo |-> m] : m \in Resolve(memo, needed)}

carried_incidents(previous) == previous

\* incidents: List[Dict[str, Any]] = []   (a fresh list on every call)
fresh_incidents(previous) == <<>>

\* api.py _load_incident_data with the log file present
load_incident_data(file, memo, previous) ==
    UNION {{[incidents |-> fresh_incidents(previous) \o b.incidents, memo |-> b.memo] :
               b \in build_incidents(l.df, l.memo)} :
           l \in load_logs(file, memo)}

(***************************************************************************)
(* repo_sql.py: the incidents table, upsert_incident and kpis              *)
(***************************************************************************)
\* json.dumps(inc.get("messages", []))
json_dumps(messages) == [t |-> "json", v |-> messages]

\* db.query(Incident).filter(Incident.order_id == oid).first(): the place of
\* the row in `rows`, 0 when there is none
first_with_order_id(rows, oid) ==
    IF \E i \in 1..Len(rows) : rows[i].order_id = oid
    THEN CHOOSE i \in 1..Len(rows) :
             /\ rows[i].order_id = oid
             /\ \A j \in 1..(i - 1) : rows[j].order_id # oid
    ELSE 0

incident_row(id, inc, source) ==
    [id |-> id,
     order_id |-> inc.order_id,
     status |-> inc.status,
     start_time |-> inc.start_time,
     end_time |-> inc.end_time,
     duration_seconds |-> inc.duration_seconds,
     failure_detail |-> inc.failure_detail,
     event_count |-> inc.event_count,
     raw_messages |-> json_dumps(inc.messages),
     source |-> source]

\* upsert_incident: overwrite the fields of the row of this order_id, or add
\* a row with the next autoincrement id
upsert_incident(rows, inc, source) ==
    LET at == first_with_order_id(rows, inc.order_id)
    IN  IF at # 0
        THEN [rows EXCEPT ![at] = incident_row(rows[at].id, inc, source)]
        ELSE Append(rows, incident_row(Len(rows) + 1, inc, source))

\* the loop of refresh_from_csv over the built incidents
RECURSIVE upsert_each(_, _)
upsert_each(rows, incs) ==
    IF incs = <<>> THEN rows
    ELSE upsert_each(upsert_incident(rows, Head(incs), "csv"), Tail(incs))

\* api_sql.py refresh_from_csv with the log file present: rows to commit, memo
refresh_from_csv(file, memo, rows) ==
    UNION {{[rows |-> upsert_each(rows, b.incidents), memo |-> b.memo] :
               b \in build_incidents(l.df, l.memo)} :
           l \in load_logs(file, memo)}

\* func.count(Incident.id)
count_all(rows) == Len(rows)

\* func.count(Incident.id) filtered by status == "FAILED"
count_failed(rows) == Cardinality({i \in 1..Len(rows) : rows[i].status = "FAILED"})

\* a Python float that is the quotient of two counts
Quotient(n, d) == [num |-> n, den |-> d]
ZERO_FLOAT == Quotient(0, 1)

unguarded_rate(failed, total) == Quotient(failed, total)

\* (failed / total) if total else 0.0
failure_rate_of(failed, total) ==
    IF total # 0 THEN Quotient(failed, total) ELSE ZERO_FLOAT

DetailCount(rows, d) == Cardinality({i \in 1..Len(rows) : rows[i].failure_detail = d})

\* the failure_detail values the grouped query may return first: the ones with
\* the greatest count (the order among equal counts is the database's), None
\* when no row has a failure_detail
top_failure_details(rows) ==
    LET details == {rows[i].failure_detail : i \in 1..Len(rows)} \ {None}
    IN  IF details = {} THEN {None}
        ELSE {d \in details :
                 \A e \in details : DetailCount(rows, e) <= DetailCount(rows, d)}

\* kpis: the dicts it may return on the committed rows
kpis(rows) ==
    {[total_incidents |-> count_all(rows),
      failed_incidents |-> count_failed(rows),
      failure_rate |-> failure_rate_of(count_failed(rows), count_all(rows)),
      top_failure_detail |-> top] : top \in top_failure_details(rows)}

(***************************************************************************)
(* Inputs of the extraction check                                          *)
(***************************************************************************)
MaxChunks == 4

ExtractChunks ==
    { ORD, PROC, <<"7">>, <<"4", "2">>, <<" ", "x", " ">>,
      <<"o", "r", "d", "-">>, <<"R", "D", "-">>, ORD \o <<"1">> }

RECURSIVE ChunkTexts(_, _)
ChunkTexts(chunks, n) ==
    IF n = 0 THEN {<<>>}
    ELSE LET shorter == ChunkTexts(chunks, n - 1)
         IN  shorter \cup {c \o t : c \in chunks, t \in shorter}

ExtractInputs ==
    {Str(t) : t \in ChunkTexts(ExtractChunks, MaxChunks)} \cup {NaN, None}

IdleEngine ==
    /\ logfile = <<>>
    /\ sortMemo = <<>>
    /\ incidents = <<>>
    /\ runs = 0
    /\ firstRun = <<>>
    /\ table = <<>>
    /\ kpi = Unset
    /\ IdleService

InitExtract ==
    /\ pc = "ready"
    /\ message \in ExtractInputs
    /\ order_id = Unset
    /\ failure_detail = Unset
    /\ root_cause = Unset
    /\ IdleEngine

CallExtractOrderId ==
    /\ pc = "ready"
    /\ order_id' = extract_order_id(message)
    /\ pc' = "done"
    /\ UNCHANGED <<message, failure_detail, root_cause, logfile, sortMemo,
                   incidents, runs, firstRun, table, kpi>>
    /\ UNCHANGED serviceVars

NextExtract == CallExtractOrderId

SpecExtract == InitExtract /\ [][NextExtract]_vars

\* s[i..j] is ORD-, optionally PROC-, then one or more digits and nothing else
IsOrderToken(s, i, j) ==
    \/ /\ StartsWithAt(s, i, ORD)
       /\ j >= i + Len(ORD)
       /\ j <= Len(s)
       /\ \A k \in (i + Len(ORD))..j : s[k] \in Digits
    \/ /\ StartsWithAt(s, i, ORD \o PROC)
       /\ j >= i + Len(ORD) + Len(PROC)
       /\ j <= Len(s)
       /\ \A k \in (i + Len(ORD) + Len(PROC))..j : s[k] \in Digits

TokenStarts(s) == {i \in 1..Len(s) : \E j \in i..Len(s) : IsOrderToken(s, i, j)}

\* C5: extract_order_id returns the leftmost token ORD-[PROC-]digits of the
\* message (all its digits), whatever surrounds it, and None when the message
\* holds no such token or is not a string.
ExtractFirstMatch ==
    pc = "done" =>
        IF message.t # "str" \/ TokenStarts(message.v) = {}
        THEN order_id = None
        ELSE LET s == message.v
                 i == CHOOSE a \in TokenStarts(s) : \A b \in TokenStarts(s) : a <= b
                 j == CHOOSE e \in i..Len(s) :
                          /\ IsOrderToken(s, i, e)
                          /\ \A f \in i..Len(s) : IsOrderToken(s, i, f) => f <= e
             IN  order_id = Str(SubSeq(s, i, j))

\* a message with text before the first token and a different token after it
ExtractFirstMatchWitness ==
    /\ pc = "done"
    /\ message.t = "str"
    /\ Cardinality(TokenStarts(message.v)) >= 2
    /\ 1 \notin TokenStarts(message.v)
    /\ order_id = Str(ORD \o <<"1">>)
    /\ Contains(message.v, ORD \o <<"4", "2">>)

\* a value that is not a string yields no order id
ExtractNonStringWitness ==
    pc = "done" /\ message = NaN /\ order_id = None

(***************************************************************************)
(* The engine: a log file, and requests that load it and build incidents   *)
(***************************************************************************)
MaxRows == 3
MaxRuns == 2

IntV(n) == [t |-> "int", v |-> n]

MSG_CREATED == <<"O", "R", "D", "-", "1", " ", "o", "k">>
MSG_STOCK == <<"O", "R", "D", "-", "1", " ", "d", "e", "t", "a", "i", "l", "=", " ", "n", "o", " ", "s", "t", "o", "c", "k", " ">>
MSG_COURIER == <<"O", "R", "D", "-", "P", "R", "O", "C", "-", "1", " ", "d", "e", "t", "a", "i", "l", "=", "l", "a", "t", "e", "\n", "r", "e", "t", "r", "y">>

\* (message, severityLevel) cells of the rows: a warning and an error of one
\* order, an error of it with detail= and blanks around the reason, an error
\* of another order whose reason runs over two lines, a row of that order
\* with an empty severity cell, and an error row with an empty message cell
LogCells ==
    { [message |-> Str(MSG_CREATED), severityLevel |-> IntV(2)],
      [message |-> Str(MSG_CREATED), severityLevel |-> IntV(3)],
      [message |-> Str(MSG_STOCK), severityLevel |-> IntV(3)],
      [message |-> Str(MSG_COURIER), severityLevel |-> IntV(3)],
      [message |-> Str(MSG_COURIER), severityLevel |-> NaN],
      [message |-> NaN, severityLevel |-> IntV(3)] }

\* parsed "timestamp [UTC]" values, in seconds
Timestamps == {0, 10}

RawRows ==
    {[timestamp |-> ts, message |-> c.message, severityLevel |-> c.severityLevel] :
        ts \in Timestamps, c \in LogCells}

RECURSIVE SeqsUpTo(_, _)
SeqsUpTo(S, n) ==
    IF n = 0 THEN {<<>>}
    ELSE LET shorter == SeqsUpTo(S, n - 1)
         IN  shorter \cup {Append(q, x) : q \in shorter, x \in S}

IdlePure ==
    /\ message = Unset
    /\ order_id = Unset
    /\ failure_detail = Unset
    /\ root_cause = Unset

Init ==
    /\ pc = "ready"
    /\ IdlePure
    /\ logfile \in SeqsUpTo(RawRows, MaxRows)
    /\ sortMemo = <<>>
    /\ incidents = <<>>
    /\ runs = 0
    /\ firstRun = <<>>
    /\ table = <<>>
    /\ kpi = Unset
    /\ IdleService

\* api.py: _load_incident_data() serving one request
ServeIncidentData ==
    /\ \E out \in load_incident_data(logfile, sortMemo, incidents) :
          /\ incidents' = out.incidents
          /\ sortMemo' = out.memo
          /\ firstRun' = IF runs = 0 THEN out.incidents ELSE firstRun
    /\ runs' = runs + 1
    /\ pc' = "done"
    /\ UNCHANGED <<message, order_id, failure_detail, root_cause, logfile, table, kpi>>
    /\ UNCHANGED serviceVars

\* one request on the log file, served by a process that then ends: the lists
\* it can return are those of ServeIncidentData, and what its sorts chose is
\* consulted by no later request
LoadIncidentData ==
    /\ pc = "ready"
    /\ \E returned \in {out.incidents : out \in load_incident_data(logfile, sortMemo, incidents)} :
          /\ incidents' = returned
          /\ firstRun' = returned
    /\ runs' = runs + 1
    /\ pc' = "done"
    /\ UNCHANGED <<message, order_id, failure_detail, root_cause, logfile, sortMemo, table, kpi>>
    /\ UNCHANGED serviceVars

Next == LoadIncidentData

Spec == Init /\ [][Next]_vars

\* requests served one after the other by the same process on the same file
MaxRerunRows == 2

InitRerun ==
    /\ pc = "ready"
    /\ IdlePure
    /\ logfile \in SeqsUpTo(RawRows, MaxRerunRows)
    /\ sortMemo = <<>>
    /\ incidents = <<>>
    /\ runs = 0
    /\ firstRun = <<>>
    /\ table = <<>>
    /\ kpi = Unset
    /\ IdleService

ReloadIncidentData == runs < MaxRuns /\ ServeIncidentData

NextRerun == ReloadIncidentData

SpecRerun == InitRerun /\ [][NextRerun]_vars

(***************************************************************************)
(* What the log file says, read row by row                                 *)
(***************************************************************************)
\* the text and the order id of every cell of the message column
CellText == [c \in {x.message : x \in LogCells} |-> astype_str(c)]
CellOrderId == [c \in {x.message : x \in LogCells} |-> extract_order_id(Str(CellText[c]))]

FileMessage(i) == CellText[logfile[i].message]
FileSeverity(i) == fillna_int(logfile[i].severityLevel)
FileTime(i) == logfile[i].timestamp
FileOrderId(i) == CellOrderId[logfile[i].message]

\* the order id of every file row
FileIds == [i \in 1..Len(logfile) |-> FileOrderId(i)]

\* the file rows that carry order id oid, ids being FileIds
RowsOf(ids, oid) == {i \in DOMAIN ids : ids[i] = oid}

FileRowsOf(oid) == RowsOf(FileIds, oid)

FileOrderIds == {FileOrderId(i) : i \in 1..Len(logfile)} \ {None}

Returned == pc = "done"

\* C1: an incident is FAILED exactly when some record of its order has
\* severityLevel >= 3, and SUCCESS otherwise.
StatusIffError ==
    Returned =>
        \A k \in 1..Len(incidents) :
            LET inc == incidents[k]
                rows == FileRowsOf(inc.order_id)
                bad == \E i \in rows : FileSeverity(i) >= 3
            IN  /\ inc.status \in {"FAILED", "SUCCESS"}
                /\ inc.status = "FAILED" <=> bad

\* an order with a warning (2) and an error (3) is FAILED, next to one
\* without errors
StatusIffErrorWitness ==
    /\ Returned
    /\ \E k \in 1..Len(incidents) :
          /\ incidents[k].status = "FAILED"
          /\ \E i, j \in FileRowsOf(incidents[k].order_id) :
                FileSeverity(i) = 2 /\ FileSeverity(j) = 3

\* C2: failure_detail is set exactly on the FAILED incidents.
DetailIffFailed ==
    Returned =>
        \A k \in 1..Len(incidents) :
            incidents[k].failure_detail # None <=> incidents[k].status = "FAILED"

\* a SUCCESS incident whose only message holds detail= and a FAILED one
DetailIffFailedWitness ==
    /\ Returned
    /\ \E k, l \in 1..Len(incidents) :
          /\ incidents[k].status = "SUCCESS"
          /\ incidents[k].failure_detail = None
          /\ \A i \in FileRowsOf(incidents[k].order_id) : Contains(FileMessage(i), DETAIL)
          /\ incidents[l].status = "FAILED"
          /\ incidents[l].failure_detail # None

\* C3: start_time and end_time are the least and greatest timestamp of the
\* order's records, duration_seconds is their difference, never negative, and
\* 0 for a single record.
TimesAreExtremes ==
    Returned =>
        \A k \in 1..Len(incidents) :
            LET inc == incidents[k]
                rows == FileRowsOf(inc.order_id)
            IN  /\ \E i \in rows : FileTime(i) = inc.start_time
                /\ \E i \in rows : FileTime(i) = inc.end_time
                /\ \A i \in rows : inc.start_time <= FileTime(i) /\ FileTime(i) <= inc.end_time
                /\ inc.start_time <= inc.end_time
                /\ inc.duration_seconds = inc.end_time - inc.start_time
                /\ inc.duration_seconds >= 0
                /\ Cardinality(rows) = 1 => inc.duration_seconds = 0

\* two records of one order, severities 2 and 3, 10 seconds apart, the later
\* one first in the file
TimesAreExtremesWitness ==
    /\ Returned
    /\ Len(logfile) = 2
    /\ FileTime(1) = 10 /\ FileTime(2) = 0
    /\ Len(incidents) = 1
    /\ incidents[1].status = "FAILED"
    /\ incidents[1].event_count = 2
    /\ incidents[1].duration_seconds = 10

Count(seq, x) == Cardinality({i \in 1..Len(seq) : seq[i] = x})

\* C4: one incident per distinct order id of the file, covering exactly the
\* records with that id; records without an id belong to no incident, and a
\* file without ids gives the empty list.
PartitionByOrderId ==
    Returned =>
        LET ids == FileIds
            found == {ids[i] : i \in DOMAIN ids} \ {None}
        IN  /\ {incidents[k].order_id : k \in 1..Len(incidents)} = found
            /\ Len(incidents) = Cardinality(found)
            /\ \A k \in 1..Len(incidents) :
                  LET inc == incidents[k]
                      rows == RowsOf(ids, inc.order_id)
                  IN  /\ inc.event_count = Cardinality(rows)
                      /\ Len(inc.messages) = Cardinality(rows)
                      /\ \A i \in 1..Len(logfile) :
                            Count(inc.messages, FileMessage(i))
                                = Cardinality({j \in rows : FileMessage(j) = FileMessage(i)})

\* a file with a record of an order and a record without an order id
PartitionByOrderIdWitness ==
    /\ Returned
    /\ Len(logfile) = 2
    /\ FileOrderId(1) = None
    /\ FileOrderId(2) # None
    /\ Len(incidents) = 1
    /\ incidents[1].event_count = 1

\* a file whose records carry no order id gives no incident
NoOrderIdWitness ==
    /\ Returned
    /\ Len(logfile) = 2
    /\ FileOrderIds = {}
    /\ incidents = <<>>

\* y is x without its leading and trailing whitespace
IsTrimOf(y, x) ==
    LET inked == {k \in 1..Len(x) : x[k] \notin Whitespace}
    IN  IF inked = {} THEN y = <<>>
        ELSE \E a, b \in inked :
                /\ \A k \in inked : a <= k /\ k <= b
                /\ y = SubSeq(x, a, b)

\* everything that follows the first detail= of msg
AfterDetail(msg) ==
    LET i == CHOOSE a \in 1..Len(msg) :
                 /\ StartsWithAt(msg, a, DETAIL)
                 /\ \A b \in 1..(a - 1) : ~StartsWithAt(msg, b, DETAIL)
    IN  SubSeq(msg, i + Len(DETAIL), Len(msg))

\* x up to its first line feed
FirstLine(x) ==
    LET ends == {k \in 1..Len(x) : x[k] = "\n"}
    IN  IF ends = {} THEN x
        ELSE SubSeq(x, 1, (CHOOSE e \in ends : \A f \in ends : e <= f) - 1)

HasDetail(msg) == \E a \in 1..Len(msg) : StartsWithAt(msg, a, DETAIL)

\* the error records of an order that no error record of the order follows in time
LastErrorRows(oid) ==
    LET rows == FileRowsOf(oid)
    IN  {i \in rows :
            /\ FileSeverity(i) >= 3
            /\ \A j \in rows : FileSeverity(j) >= 3 => FileTime(j) <= FileTime(i)}

\* C6 as stated: failure_detail of a FAILED incident comes from the last error
\* record of the order: the trimmed rest of the text after detail= when the
\* message holds detail=, the whole message otherwise.
DetailIsRestOfText ==
    Returned =>
        \A k \in 1..Len(incidents) :
            incidents[k].status = "FAILED" =>
                \E i \in LastErrorRows(incidents[k].order_id) :
                    /\ incidents[k].failure_detail.t = "str"
                    /\ IF HasDetail(FileMessage(i))
                       THEN IsTrimOf(incidents[k].failure_detail.v,
                                     AfterDetail(FileMessage(i)))
                       ELSE incidents[k].failure_detail.v = FileMessage(i)

\* C6 amended: failure_detail of a FAILED incident comes from the last error
\* record of the order: the trimmed rest of the line after the first detail=
\* (the text up to the next line feed) when the message holds detail=, the
\* whole message otherwise.
DetailIsRestOfLine ==
    Returned =>
        \A k \in 1..Len(incidents) :
            incidents[k].status = "FAILED" =>
                \E i \in LastErrorRows(incidents[k].order_id) :
                    /\ incidents[k].failure_detail.t = "str"
                    /\ IF HasDetail(FileMessage(i))
                       THEN IsTrimOf(incidents[k].failure_detail.v,
                                     FirstLine(AfterDetail(FileMessage(i))))
                       ELSE incidents[k].failure_detail.v = FileMessage(i)

\* an order with an earlier error record without detail= and a later error
\* record with detail=: the later one decides
DetailIsRestOfLineWitness ==
    /\ Returned
    /\ Len(logfile) = 2
    /\ FileOrderId(1) = FileOrderId(2)
    /\ FileSeverity(1) = 3 /\ FileSeverity(2) = 3
    /\ FileTime(1) = 10 /\ FileTime(2) = 0
    /\ HasDetail(FileMessage(1)) /\ ~HasDetail(FileMessage(2))
    /\ Len(incidents) = 1
    /\ incidents[1].failure_detail = Str(<<"n", "o", " ", "s", "t", "o", "c", "k">>)

\* position of file row i among the rows of its order, by time and, at equal
\* times, by place in the file
StableRank(oid, i) ==
    1 + Cardinality({j \in FileRowsOf(oid) :
                        \/ FileTime(j) < FileTime(i)
                        \/ FileTime(j) = FileTime(i) /\ j < i})

\* C7: the messages of an incident are in time order, and records of one order
\* with the same timestamp keep the order they have in the file.
MessagesStablySorted ==
    Returned =>
        \A k \in 1..Len(incidents) :
            \A i \in FileRowsOf(incidents[k].order_id) :
                /\ StableRank(incidents[k].order_id, i) <= Len(incidents[k].messages)
                /\ incidents[k].messages[StableRank(incidents[k].order_id, i)]
                       = FileMessage(i)

UpperCase ==
    <<"A", "B", "C", "D", "E", "F", "G", "H", "I", "J", "K", "L", "M", "N", "O",
      "P", "Q", "R", "S", "T", "U", "V", "W", "X", "Y", "Z">>
LowerCase ==
    <<"a", "b", "c", "d", "e", "f", "g", "h", "i", "j", "k", "l", "m", "n", "o",
      "p", "q", "r", "s", "t", "u", "v", "w", "x", "y", "z">>

lower_char(c) ==
    IF \E i \in 1..Len(UpperCase) : UpperCase[i] = c
    THEN LowerCase[CHOOSE i \in 1..Len(UpperCase) : UpperCase[i] = c]
    ELSE c

not_lowered(s) == s

\* str.lower()
lower(s) == [i \in 1..Len(s) |-> lower_char(s[i])]

INVENTORY_UNAVAILABLE ==
    <<"i", "n", "v", "e", "n", "t", "o", "r", "y", " ", "s", "e", "r", "v",
      "i", "c", "e", " ", "u", "n", "a", "v", "a", "i", "l", "a", "b", "l",
      "e">>
INSUFFICIENT_STOCK ==
    <<"i", "n", "s", "u", "f", "f", "i", "c", "i", "e", "n", "t", " ", "s",
      "t", "o", "c", "k">>
COURIER_SERVICE_TIMEOUT ==
    <<"c", "o", "u", "r", "i", "e", "r", " ", "s", "e", "r", "v", "i", "c",
      "e", " ", "t", "i", "m", "e", "o", "u", "t">>
COURIER_API_TIMEOUT ==
    <<"c", "o", "u", "r", "i", "e", "r", " ", "a", "p", "i", " ", "t", "i",
      "m", "e", "o", "u", "t">>

\* `not failure_detail`: None and the empty string are both falsy
falsy(d) == d.t = "None" \/ d.v = <<>>

classify_root_cause(d) ==
    IF falsy(d) THEN "Unknown cause"
    ELSE LET text == lower(d.v)
         IN  IF Contains(text, INVENTORY_UNAVAILABLE)
                 THEN "Inventory service outage (dependency failure)"
             ELSE IF Contains(text, INSUFFICIENT_STOCK)
                 THEN "Inventory capacity / stock issue"
             ELSE IF \/ Contains(text, COURIER_SERVICE_TIMEOUT)
                     \/ Contains(text, COURIER_API_TIMEOUT)
                 THEN "Courier API latency / timeout (third-party degradation)"
             ELSE "Unknown / unclassified failure"

(***************************************************************************)
(* Inputs of the classification check                                      *)
(***************************************************************************)
MaxPhrases == 3

DetailPhrases ==
    { <<"I", "n", "v", "e", "n", "t", "o", "r", "y", " ", "s", "e", "r", "v",
      "i", "c", "e", " ", "u", "n", "a", "v", "a", "i", "l", "a", "b", "l",
      "e">>,
      <<"i", "n", "s", "u", "f", "f", "i", "c", "i", "e", "n", "t", " ", "s",
      "t", "o", "c", "k">>,
      <<"C", "o", "u", "r", "i", "e", "r", " ", "s", "e", "r", "v", "i", "c",
      "e", " ", "t", "i", "m", "e", "o", "u", "t">>,
      <<"C", "o", "u", "r", "i", "e", "r", " ", "A", "P", "I", " ", "t", "i",
      "m", "e", "o", "u", "t">>,
      <<" ", "f", "o", "r", " ", "p", "r", "o", "d", "u", "c", "t", "=", "X">>,
      <<"c", "o", "u", "r", "i", "e", "r", " ", "s", "e", "r", "v", "i", "c",
      "e">>,
      <<" ", "t", "i", "m", "e", "o", "u", "t">> }

DetailInputs ==
    {Str(t) : t \in ChunkTexts(DetailPhrases, MaxPhrases)} \cup {None}

InitClassify ==
    /\ pc = "ready"
    /\ message = Unset
    /\ order_id = Unset
    /\ failure_detail \in DetailInputs
    /\ root_cause = Unset
    /\ IdleEngine

CallClassifyRootCause ==
    /\ pc = "ready"
    /\ root_cause' = classify_root_cause(failure_detail)
    /\ pc' = "done"
    /\ UNCHANGED <<message, order_id, failure_detail, logfile, sortMemo,
                   incidents, runs, firstRun, table, kpi>>
    /\ UNCHANGED serviceVars

NextClassify == CallClassifyRootCause

SpecClassify == InitClassify /\ [][NextClassify]_vars

\* c and d are the same character up to the case of a letter
SameIgnoringCase(c, d) ==
    \/ c = d
    \/ \E i \in 1..Len(UpperCase) : {c, d} = {UpperCase[i], LowerCase[i]}

\* phrase p occurs in text t, letters compared without regard to case
Mentions(t, p) ==
    \E i \in 1..Len(t) :
        /\ i + Len(p) - 1 <= Len(t)
        /\ \A k \in 1..Len(p) : SameIgnoringCase(t[i + k - 1], p[k])

\* the category the first-match order of the phrases gives to a text
CategoryByPhrases(t) ==
    IF Mentions(t, INVENTORY_UNAVAILABLE)
        THEN "Inventory service outage (dependency failure)"
    ELSE IF Mentions(t, INSUFFICIENT_STOCK)
        THEN "Inventory capacity / stock issue"
    ELSE IF Mentions(t, COURIER_SERVICE_TIMEOUT) \/ Mentions(t, COURIER_API_TIMEOUT)
        THEN "Courier API latency / timeout (third-party degradation)"
    ELSE "Unknown / unclassified failure"

\* C9 as stated: None maps to the unknown-cause category, and every text,
\* whatever its content, to the category of the first phrase it mentions
\* (letters compared without case), or to the unclassified category.
ClassifyEveryText ==
    pc = "done" =>
        IF failure_detail = None THEN root_cause = "Unknown cause"
        ELSE root_cause = CategoryByPhrases(failure_detail.v)

\* C9 amended: None and the empty text map to the unknown-cause category, and
\* every text that is not empty to the category of the first phrase it
\* mentions (letters compared without case), or to the unclassified category.
ClassifyNonEmptyText ==
    pc = "done" =>
        IF failure_detail = None \/ failure_detail.v = <<>>
        THEN root_cause = "Unknown cause"
        ELSE root_cause = CategoryByPhrases(failure_detail.v)

\* a text that mentions insufficient stock and then, in capitals, the
\* unavailable inventory service: the earlier rule wins
ClassifyNonEmptyTextWitness ==
    /\ pc = "done"
    /\ failure_detail.t = "str"
    /\ Contains(failure_detail.v, INSUFFICIENT_STOCK)
    /\ ~Contains(failure_detail.v, INVENTORY_UNAVAILABLE)
    /\ Mentions(failure_detail.v, INVENTORY_UNAVAILABLE)
    /\ root_cause = "Inventory service outage (dependency failure)"

(***************************************************************************)
(* The SQL API: the export is replaced, refreshed from, and KPIs are read  *)
(***************************************************************************)
MaxStoreRows == 1

\* the log files of this specification: rows of one instant
StoreFiles == SeqsUpTo({r \in RawRows : r.timestamp = 0}, MaxStoreRows)

InitStore ==
    /\ pc = "ready"
    /\ IdlePure
    /\ logfile \in StoreFiles
    /\ sortMemo = <<>>
    /\ incidents = <<>>
    /\ runs = 0
    /\ firstRun = <<>>
    /\ table = <<>>
    /\ kpi = Unset
    /\ IdleService

\* a new export of the traces replaces logs_sample.csv
ExportLogs ==
    /\ logfile' \in StoreFiles
    /\ logfile' # logfile
    /\ kpi' = Unset
    /\ pc' = "ready"
    /\ UNCHANGED <<message, order_id, failure_detail, root_cause, sortMemo,
                   incidents, runs, firstRun, table>>
    /\ UNCHANGED serviceVars

\* POST /refresh: load, build, upsert every incident, commit
Refresh ==
    /\ \E out \in refresh_from_csv(logfile, sortMemo, table) :
          /\ table' = out.rows
          /\ sortMemo' = out.memo
    /\ kpi' = Unset
    /\ pc' = "refreshed"
    /\ UNCHANGED <<message, order_id, failure_detail, root_cause, logfile,
                   incidents, runs, firstRun>>
    /\ UNCHANGED serviceVars

\* GET /kpis
GetKpis ==
    /\ kpi' \in kpis(table)
    /\ pc' = "kpis"
    /\ UNCHANGED <<message, order_id, failure_detail, root_cause, logfile,
                   sortMemo, incidents, runs, firstRun, table>>
    /\ UNCHANGED serviceVars

NextStore == ExportLogs \/ Refresh \/ GetKpis

SpecStore == InitStore /\ [][NextStore]_vars

FailedRows == {i \in 1..Len(table) : table[i].status = "FAILED"}

\* C10: kpis reports the number of rows and of FAILED rows, failed <= total,
\* failure_rate = failed / total when there are rows, and failure_rate 0.0
\* with no top_failure_detail when there are none.
KpisOfStore ==
    pc = "kpis" =>
        /\ kpi.total_incidents = Len(table)
        /\ kpi.failed_incidents = Cardinality(FailedRows)
        /\ kpi.failed_incidents <= kpi.total_incidents
        /\ kpi.total_incidents > 0 =>
              /\ kpi.failure_rate.den > 0
              /\ kpi.failure_rate.num * kpi.total_incidents
                     = kpi.failed_incidents * kpi.failure_rate.den
        /\ Len(table) = 0 =>
              /\ kpi.failure_rate = ZERO_FLOAT
              /\ kpi.top_failure_detail = None

\* KPIs of a store with a FAILED and a SUCCESS incident: rate 1/2
KpisOfStoreWitness ==
    /\ pc = "kpis"
    /\ Len(table) = 2
    /\ Cardinality(FailedRows) = 1
    /\ kpi.failure_rate.num * 2 = kpi.failure_rate.den
    /\ kpi.top_failure_detail # None

\* KPIs of the empty store
KpisOfEmptyStoreWitness ==
    /\ pc = "kpis"
    /\ Len(table) = 0
    /\ kpi.failure_rate = ZERO_FLOAT

(***************************************************************************)
(* api_sql.py POST /refresh, statement by statement: requests run in       *)
(* threads of the server, each with its own session (db_sql.py:            *)
(* autocommit=False, autoflush=False), so nothing is written before        *)
(* db.commit() and each query reads the rows committed so far.             *)
(***************************************************************************)
MaxBatchRows == 2

\* the log files of this specification: rows of one instant, a warning and a
\* detailed error of one order and a row of another order, at most one row
\* per order in a file
RefreshCells ==
    { [message |-> Str(MSG_CREATED), severityLevel |-> IntV(2)],
      [message |-> Str(MSG_STOCK), severityLevel |-> IntV(3)],
      [message |-> Str(MSG_COURIER), severityLevel |-> NaN] }

RefreshRows ==
    {r \in RawRows : r.timestamp = 0
                      /\ [message |-> r.message, severityLevel |-> r.severityLevel]
                             \in RefreshCells}

RefreshFiles ==
    {f \in SeqsUpTo(RefreshRows, MaxBatchRows) :
        \A i, j \in 1..Len(f) :
            i # j => extract_order_id(f[i].message) # extract_order_id(f[j].message)}

\* the columns upsert_incident assigns
AssignedColumns ==
    {"status", "start_time", "end_time", "duration_seconds", "failure_detail",
     "event_count", "raw_messages", "source"}

\* upsert_incident in a session: the query reads the committed rows (pending
\* objects are not flushed); a found row is loaded and its attributes are
\* assigned, otherwise a new object is added to the session
upsert_unit(rows, inc, source) ==
    LET at == first_with_order_id(rows, inc.order_id)
    IN  IF at # 0
        THEN [kind |-> "update", loaded |-> rows[at],
              new |-> incident_row(rows[at].id, inc, source)]
        ELSE [kind |-> "insert", loaded |-> incident_row(0, inc, source),
              new |-> incident_row(0, inc, source)]

\* a row that keeps its failure_detail when the newer incident has none
merge_row(current, unit) ==
    [c \in DOMAIN current |->
        IF c \in AssignedColumns /\ unit.new[c] # unit.loaded[c]
           /\ ~(c = "failure_detail" /\ unit.new[c] = None)
        THEN unit.new[c] ELSE current[c]]

\* the UPDATE the flush emits for a loaded object: it sets the columns whose
\* assigned value differs from the loaded one, in the row of that id
update_row(current, unit) ==
    [c \in DOMAIN current |->
        IF c \in AssignedColumns /\ unit.new[c] # unit.loaded[c]
        THEN unit.new[c] ELSE current[c]]

\* uq_incidents_order_id refuses the INSERT of a pending object whose
\* order_id a committed row has
violates_unique(rows, units) ==
    \E k \in 1..Len(units) :
        /\ units[k].kind = "insert"
        /\ first_with_order_id(rows, units[k].new.order_id) # 0

\* the rows after the flush of one unit
flush_unit(rows, unit) ==
    IF unit.kind = "insert"
    THEN Append(rows, [unit.new EXCEPT !.id = Len(rows) + 1])
    ELSE [i \in 1..Len(rows) |->
             IF rows[i].id = unit.loaded.id THEN update_row(rows[i], unit) ELSE rows[i]]

\* a commit that makes the table the image of the batch
replace_all(rows, units) ==
    [k \in 1..Len(units) |-> [units[k].new EXCEPT !.id = k]]

RECURSIVE flush(_, _)
flush(rows, units) ==
    IF units = <<>> THEN rows
    ELSE flush(flush_unit(rows, Head(units)), Tail(units))

\* lines 37-41 with the file present: the batches load_logs and
\* build_incidents may give
built_batches(file, memo) ==
    {b.incidents : b \in UNION {build_incidents(l.df, l.memo) : l \in load_logs(file, memo)}}

\* a file that would be read whether it exists or not
load_unchecked(exists) == FALSE

\* engine.py load_logs, lines 36-38: None when LOG_FILE does not exist
load_logs_is_none(exists) == ~exists

\* lines 37-43: the file is missing -> HTTP 500 before any session is opened;
\* otherwise the batch is built and a session is opened.  Two builds are not
\* compared here, so what the sorts chose is not recorded.
BeginRefresh(r) ==
    /\ session[r].pc = "idle"
    /\ IF load_logs_is_none(fileExists)
       THEN session' = [session EXCEPT ![r] = [NoRequest EXCEPT !.pc = "failed", !.code = 500]]
       ELSE \E batch \in built_batches(logfile, sortMemo) :
               session' = [session EXCEPT ![r] =
                   [pc |-> IF batch = <<>> THEN "commit" ELSE "upsert",
                    todo |-> batch, units |-> <<>>, code |-> 0]]
    /\ UNCHANGED <<pc, message, order_id, failure_detail, root_cause, logfile,
                   sortMemo, incidents, runs, firstRun, table, kpi, fileExists>>
    /\ UNCHANGED <<postmortemVars, orderVars>>

\* lines 45-51: one turn of the loop
UpsertIncident(r) ==
    /\ session[r].pc = "upsert"
    /\ LET inc == Head(session[r].todo)
           rest == Tail(session[r].todo)
       IN  session' = [session EXCEPT
               ![r].units = Append(@, upsert_unit(table, inc, "csv")),
               ![r].todo = rest,
               ![r].pc = IF rest = <<>> THEN "commit" ELSE "upsert"]
    /\ UNCHANGED <<pc, message, order_id, failure_detail, root_cause, logfile,
                   sortMemo, incidents, runs, firstRun, table, kpi, fileExists>>
    /\ UNCHANGED <<postmortemVars, orderVars>>

\* line 52: db.commit() flushes the session in one transaction; a refused
\* INSERT raises IntegrityError, the transaction is rolled back by db.close()
\* and the request ends with HTTP 500
Commit(r) ==
    /\ session[r].pc = "commit"
    /\ IF violates_unique(table, session[r].units)
       THEN /\ session' = [session EXCEPT ![r].pc = "failed", ![r].code = 500]
            /\ UNCHANGED table
       ELSE /\ session' = [session EXCEPT ![r].pc = "done", ![r].code = 200]
            /\ table' = flush(table, session[r].units)
    /\ UNCHANGED <<pc, message, order_id, failure_detail, root_cause, logfile,
                   sortMemo, incidents, runs, firstRun, kpi, fileExists>>
    /\ UNCHANGED <<postmortemVars, orderVars>>

\* a statement of the session raises (the connection is lost): finally
\* db.close() discards what the session holds, HTTP 500
Abort(r) ==
    /\ session[r].pc \in {"upsert", "commit"}
    /\ session' = [session EXCEPT ![r].pc = "failed", ![r].code = 500]
    /\ UNCHANGED <<pc, message, order_id, failure_detail, root_cause, logfile,
                   sortMemo, incidents, runs, firstRun, table, kpi, fileExists>>
    /\ UNCHANGED <<postmortemVars, orderVars>>

\* the response is sent
Respond(r) ==
    /\ session[r].pc \in {"done", "failed"}
    /\ session' = [session EXCEPT ![r] = NoRequest]
    /\ UNCHANGED <<pc, message, order_id, failure_detail, root_cause, logfile,
                   sortMemo, incidents, runs, firstRun, table, kpi, fileExists>>
    /\ UNCHANGED <<postmortemVars, orderVars>>

\* a new export of the traces replaces logs_sample.csv, or the file is removed
ReplaceLogs ==
    /\ \/ /\ logfile' \in RefreshFiles
          /\ logfile' # logfile
          /\ fileExists' = TRUE
       \/ /\ fileExists
          /\ fileExists' = FALSE
          /\ UNCHANGED logfile
    /\ UNCHANGED <<pc, message, order_id, failure_detail, root_cause,
                   sortMemo, incidents, runs, firstRun, table, kpi, session>>
    /\ UNCHANGED <<postmortemVars, orderVars>>

InitRefresh ==
    /\ pc = "ready"
    /\ IdlePure
    /\ logfile \in RefreshFiles
    /\ sortMemo = <<>>
    /\ incidents = <<>>
    /\ runs = 0
    /\ firstRun = <<>>
    /\ table = <<>>
    /\ kpi = Unset
    /\ IdleService

NextRefresh ==
    \/ ReplaceLogs
    \/ \E r \in Requests :
          BeginRefresh(r) \/ UpsertIncident(r) \/ Commit(r) \/ Abort(r) \/ Respond(r)

SpecRefresh == InitRefresh /\ [][NextRefresh]_vars


\* refresh requests handled one after the other
BeginNextRefresh(r) ==
    /\ \A q \in Requests : session[q].pc = "idle"
    /\ BeginRefresh(r)

NextSerial ==
    \/ ReplaceLogs
    \/ \E r \in Requests :
          BeginNextRefresh(r) \/ UpsertIncident(r) \/ Commit(r) \/ Abort(r) \/ Respond(r)

SpecSerial == InitRefresh /\ [][NextSerial]_vars

\* the place of the row of an order in the table, 0 when there is none
RowAt(oid) == first_with_order_id(table, oid)

\* the committed row of the order carries the values this upsert assigned
CarriesUpsert(unit) ==
    /\ RowAt(unit.new.order_id) # 0
    /\ \A c \in AssignedColumns : table[RowAt(unit.new.order_id)][c] = unit.new[c]

\* C11: with upserts and commits made one after the other, the table has at
\* most one row per order_id, and after a commit the row of every upserted
\* order has exactly the status, times, duration, failure_detail, event
\* count, messages and source of that upsert (None included): nothing of an
\* earlier upsert is left.
UpsertOverwrites ==
    /\ \A i, j \in 1..Len(table) : i # j => table[i].order_id # table[j].order_id
    /\ \A r \in Requests :
          session[r].pc = "done" =>
              \A k \in 1..Len(session[r].units) : CarriesUpsert(session[r].units[k])

\* a committed upsert that found a row with a failure_detail and carried none
UpsertOverwritesWitness ==
    \E r \in Requests :
        /\ session[r].pc = "done"
        /\ \E k \in 1..Len(session[r].units) :
              LET unit == session[r].units[k]
              IN  /\ unit.kind = "update"
                  /\ unit.loaded.failure_detail # None
                  /\ unit.loaded.status = "FAILED"
                  /\ unit.new.failure_detail = None
                  /\ table[RowAt(unit.new.order_id)].failure_detail = None
                  /\ table[RowAt(unit.new.order_id)].status = "SUCCESS"


\* the row of the order in the table after the step carries what this upsert assigned
CarriesUpsertNext(unit) ==
    LET rows == table'
        at == first_with_order_id(rows, unit.new.order_id)
    IN  /\ at # 0
        /\ \A c \in AssignedColumns : rows[at][c] = unit.new[c]

\* C12: whatever the interleaving of the refreshes, a refresh that commits
\* leaves, for every order it upserted, the single row of that order with
\* exactly the fields it assigned: the last committer wins.
LastWriteWins ==
    [][\A r \in Requests :
          (session[r].pc = "commit" /\ session'[r].pc = "done") =>
              \A k \in 1..Len(session[r].units) : CarriesUpsertNext(session[r].units[k])]_vars


(***************************************************************************)
(* The log file may be missing: api.py's handlers and POST /refresh        *)
(***************************************************************************)
\* api.py: _load_incident_data() called by a handler; HTTP 500 when load_logs
\* returns None, the built list otherwise
GetIncidentData ==
    /\ IF load_logs_is_none(fileExists)
       THEN /\ pc' = "http500"
            /\ UNCHANGED incidents
       ELSE /\ pc' = "done"
            /\ incidents' \in built_batches(logfile, sortMemo)
    /\ UNCHANGED <<message, order_id, failure_detail, root_cause, logfile,
                   sortMemo, runs, firstRun, table, kpi, fileExists, session>>
    /\ UNCHANGED <<postmortemVars, orderVars>>

NextMissing ==
    \/ ReplaceLogs
    \/ GetIncidentData
    \/ \E r \in Requests :
          BeginNextRefresh(r) \/ UpsertIncident(r) \/ Commit(r) \/ Abort(r) \/ Respond(r)

SpecMissing == InitRefresh /\ [][NextMissing]_vars

\* a request arrives: a handler of api.py answers, or a refresh leaves "idle"
HandlerAnswers == pc' # pc \/ incidents' # incidents

RefreshArrives(r) == session[r].pc = "idle" /\ session'[r].pc # "idle"

\* C13: a request that arrives while logs_sample.csv is missing ends with
\* HTTP 500 and processes nothing: a handler of api.py builds no incident
\* list, and POST /refresh holds no batch, makes no upsert and no commit and
\* leaves the incidents table as it was.
MissingFileIsTerminal ==
    [][~fileExists =>
          /\ HandlerAnswers => (pc' = "http500" /\ incidents' = incidents)
          /\ \A r \in Requests :
                RefreshArrives(r) =>
                    /\ session'[r] = [pc |-> "failed", todo |-> <<>>, units |-> <<>>, code |-> 500]
                    /\ table' = table]_vars

\* both kinds of request have been refused for a missing file while the store
\* holds rows and a list built earlier is still there
MissingFileIsTerminalWitness ==
    /\ ~fileExists
    /\ pc = "http500"
    /\ incidents # <<>>
    /\ table # <<>>
    /\ \E r \in Requests : session[r] = [pc |-> "failed", todo |-> <<>>, units |-> <<>>, code |-> 500]


\* the order ids a session upserted
UpsertedIds(r) == {session[r].units[k].new.order_id : k \in 1..Len(session[r].units)}

\* the step is the successful commit of request r
Commits(r) == session[r].pc = "commit" /\ session'[r].pc = "done"

\* the step ends request r with an error
Fails(r) == session[r].pc # "failed" /\ session'[r].pc = "failed"

\* C16: whatever the interleaving, every row stays in place with its id and
\* order_id (none is deleted, the persisted order ids never shrink); the
\* table changes only in the step that commits a refresh, which then holds
\* its whole batch; the rows added or changed by that step are rows of
\* orders of that batch, and afterwards every order of the batch has a row;
\* a refresh that ends with an error leaves the table as it was.
RefreshFrame ==
    [][/\ \A i \in 1..Len(table) :
             /\ i <= Len(table')
             /\ table'[i].id = table[i].id
             /\ table'[i].order_id = table[i].order_id
       /\ table' # table =>
             \E r \in Requests :
                 /\ Commits(r)
                 /\ session[r].todo = <<>>
                 /\ \A i \in 1..Len(table') :
                       (i > Len(table) \/ table'[i] # table[i]) =>
                           table'[i].order_id \in UpsertedIds(r)
       /\ \A r \in Requests :
             /\ Commits(r) =>
                   \A oid \in UpsertedIds(r) : first_with_order_id(table', oid) # 0
             /\ Fails(r) => table' = table]_vars

\* a refresh of one order has committed into a table that holds two orders,
\* while another refresh that had upserted two orders ended with an error
RefreshFrameWitness ==
    \E r, q \in Requests :
        /\ session[r].pc = "done"
        /\ Len(session[r].units) = 1
        /\ session[r].units[1].kind = "update"
        /\ Len(table) = 2
        /\ session[q].pc = "failed"
        /\ Len(session[q].units) = 2


(***************************************************************************)
(* Post-mortems: engine.py generate_postmortem_gemini, api.py and          *)
(* api_sql.py GET /incidents/{order_id}/postmortem, repo_sql.py            *)
(* get_postmortem / upsert_postmortem.  The postmortems table outlives the *)
(* process; GEMINI_API_KEY and GEMINI_MODEL are read when it starts.       *)
(***************************************************************************)
LLM_DISABLED == "[LLM DISABLED] GEMINI_API_KEY not configured."

\* values of GEMINI_API_KEY: not set, set to the empty string, set to a key
ApiKeys == {None, Str(<<>>), Str(<<"k">>)}

\* values of GEMINI_MODEL
ModelNames == {DEFAULT_MODEL, "gemini-pro"}

\* texts the model may answer (resp.text)
ReportTexts == {"report"}

\* the order ids asked for
RequestedIds == {Str(ORD \o <<"1">>), Str(ORD \o PROC \o <<"1">>)}

\* a generator that calls the model whatever the key
generate_always(inc, key) ==
    {[raised |-> FALSE, text |-> t, model_called |-> TRUE] : t \in ReportTexts}

\* generate_postmortem_gemini: the placeholder when the key is None or empty;
\* otherwise the model is called and answers a text or raises
generate_postmortem_gemini(inc, key) ==
    IF falsy(key)
    THEN {[raised |-> FALSE, text |-> LLM_DISABLED, model_called |-> FALSE]}
    ELSE {[raised |-> FALSE, text |-> t, model_called |-> TRUE] : t \in ReportTexts}
         \cup {[raised |-> TRUE, text |-> "", model_called |-> TRUE]}

\* repo_sql.get_incident: place of the row, 0 when there is none
get_incident(rows, oid) == first_with_order_id(rows, oid)

\* repo_sql.get_postmortem: place of the first row of (order_id, model_name),
\* 0 when there is none
get_postmortem(pms, oid, model) ==
    IF \E i \in 1..Len(pms) : pms[i].order_id = oid /\ pms[i].model_name = model
    THEN CHOOSE i \in 1..Len(pms) :
             /\ pms[i].order_id = oid /\ pms[i].model_name = model
             /\ \A j \in 1..(i - 1) : ~(pms[j].order_id = oid /\ pms[j].model_name = model)
    ELSE 0

\* an upsert that always adds a row
insert_postmortem(pms, oid, model, text) ==
    Append(pms, [id |-> Len(pms) + 1, order_id |-> oid, model_name |-> model,
                 report_text |-> text])

\* repo_sql.upsert_postmortem, committed by the caller
upsert_postmortem(pms, oid, model, text) ==
    LET pm == get_postmortem(pms, oid, model)
    IN  IF pm # 0
        THEN [pms EXCEPT ![pm].report_text = text]
        ELSE Append(pms, [id |-> Len(pms) + 1, order_id |-> oid, model_name |-> model,
                          report_text |-> text])

\* the answer of a handler: HTTP status, the "cached" and "postmortem" fields,
\* and whether the generator and the model were called
Answer(handler, oid, regenerate, code, cached, text, generated, called) ==
    [handler |-> handler, order_id |-> oid, regenerate |-> regenerate,
     code |-> code, cached |-> cached, postmortem |-> text,
     generated |-> generated, model_called |-> called]

\* the row read as the dict given to the generator (api_sql.py 124-133)
inc_dict(row) ==
    [order_id |-> row.order_id, status |-> row.status,
     start_time |-> row.start_time, end_time |-> row.end_time,
     duration_seconds |-> row.duration_seconds,
     failure_detail |-> row.failure_detail, event_count |-> row.event_count,
     messages |-> row.raw_messages.v]

\* api_sql.py api_get_postmortem: the postmortems rows and the answer it may
\* leave
api_get_postmortem(rows, pms, key, model, oid, regenerate) ==
    LET inc == get_incident(rows, oid)
        cached == get_postmortem(pms, oid, model)
    IN  IF inc = 0
        THEN {[postmortems |-> pms,
               reply |-> Answer("api_sql", oid, regenerate, 404, FALSE, "", FALSE, FALSE)]}
        ELSE IF ~regenerate /\ cached # 0
        THEN {[postmortems |-> pms,
               reply |-> Answer("api_sql", oid, regenerate, 200, TRUE,
                                pms[cached].report_text, FALSE, FALSE)]}
        ELSE {IF g.raised
              THEN [postmortems |-> pms,
                    reply |-> Answer("api_sql", oid, regenerate, 500, FALSE, "", TRUE,
                                     g.model_called)]
              ELSE [postmortems |-> upsert_postmortem(pms, oid, model, g.text),
                    reply |-> Answer("api_sql", oid, regenerate, 200, FALSE, g.text, TRUE,
                                     g.model_called)] :
                 g \in generate_postmortem_gemini(inc_dict(rows[inc]), key)}

\* engine.get_incident_by_order_id: place in the list, 0 when there is none
get_incident_by_order_id(incs, oid) ==
    IF \E i \in 1..Len(incs) : incs[i].order_id = oid
    THEN CHOOSE i \in 1..Len(incs) :
             /\ incs[i].order_id = oid
             /\ \A j \in 1..(i - 1) : incs[j].order_id # oid
    ELSE 0

\* api.py get_postmortem on a built list: the answers it may give
get_postmortem_from_logs(incs, key, oid) ==
    LET inc == get_incident_by_order_id(incs, oid)
    IN  IF inc = 0
        THEN {Answer("api", oid, FALSE, 404, FALSE, "", FALSE, FALSE)}
        ELSE {IF g.raised
              THEN Answer("api", oid, FALSE, 500, FALSE, "", TRUE, g.model_called)
              ELSE Answer("api", oid, FALSE, 200, FALSE, g.text, TRUE, g.model_called) :
                 g \in generate_postmortem_gemini(incs[inc], key)}

\* the batches load_logs and build_incidents give for each log file of this
\* specification, computed once (no sort is recorded here)
BatchesOf == [f \in RefreshFiles |-> built_batches(f, <<>>)]

\* api_sql.py POST /refresh served alone, the log file present: load, build,
\* upsert every incident, commit
RefreshStore ==
    /\ fileExists
    /\ \E batch \in BatchesOf[logfile] : table' = upsert_each(table, batch)
    /\ UNCHANGED <<pc, message, order_id, failure_detail, root_cause, logfile,
                   sortMemo, incidents, runs, firstRun, kpi>>
    /\ UNCHANGED <<refreshVars, postmortemVars, orderVars>>

\* api_sql.py: GET /incidents/{order_id}/postmortem?regenerate=...
GetPostmortem ==
    /\ \E oid \in RequestedIds, regenerate \in BOOLEAN :
          \E out \in api_get_postmortem(table, postmortems, apiKey, modelName, oid, regenerate) :
              /\ postmortems' = out.postmortems
              /\ reply' = out.reply
    /\ UNCHANGED <<pc, message, order_id, failure_detail, root_cause, logfile,
                   sortMemo, incidents, runs, firstRun, table, kpi>>
    /\ UNCHANGED <<refreshVars, apiKey, modelName, orderVars>>

\* api.py: GET /incidents/{order_id}/postmortem, the log file present
GetPostmortemFromLogs ==
    /\ fileExists
    /\ \E oid \in RequestedIds, incs \in BatchesOf[logfile] :
          reply' \in get_postmortem_from_logs(incs, apiKey, oid)
    /\ UNCHANGED <<pc, message, order_id, failure_detail, root_cause, logfile,
                   sortMemo, incidents, runs, firstRun, table, kpi>>
    /\ UNCHANGED <<refreshVars, apiKey, modelName, postmortems, orderVars>>

\* the process is started again with another environment; the tables stay
Restart ==
    /\ apiKey' \in ApiKeys
    /\ modelName' \in ModelNames
    /\ <<apiKey', modelName'>> # <<apiKey, modelName>>
    /\ reply' = Unset
    /\ UNCHANGED <<pc, message, order_id, failure_detail, root_cause, logfile,
                   sortMemo, incidents, runs, firstRun, table, kpi>>
    /\ UNCHANGED <<refreshVars, postmortems, orderVars>>

InitPostmortem ==
    /\ pc = "ready"
    /\ IdlePure
    /\ logfile \in RefreshFiles
    /\ sortMemo = <<>>
    /\ incidents = <<>>
    /\ runs = 0
    /\ firstRun = <<>>
    /\ table = <<>>
    /\ kpi = Unset
    /\ IdleService

NextPostmortem == RefreshStore \/ GetPostmortem \/ GetPostmortemFromLogs \/ Restart

SpecPostmortem == InitPostmortem /\ [][NextPostmortem]_vars


\* the latest post-mortem request found its incident and the key is not configured
AnsweredWithoutKey == reply # Unset /\ falsy(apiKey) /\ reply.code # 404

\* C14 as stated: without a configured key, a post-mortem request for an
\* existing incident completes normally, the model is not called, and the
\* postmortem field is the disabled placeholder.
DisabledPlaceholderReturned ==
    AnsweredWithoutKey =>
        /\ reply.code = 200
        /\ ~reply.model_called
        /\ reply.postmortem = LLM_DISABLED

\* C14 (amended): without a configured key, a post-mortem request for an
\* existing incident completes normally and the model is not called; when the
\* generator is called (always in api.py; in api_sql.py with regenerate or
\* with no report stored for the order and model) the postmortem field is
\* the disabled placeholder, and otherwise it is the stored report.
DisabledNeverFails ==
    AnsweredWithoutKey =>
        /\ reply.code = 200
        /\ ~reply.model_called
        /\ reply.generated => (reply.postmortem = LLM_DISABLED /\ ~reply.cached)
        /\ ~reply.generated =>
              /\ reply.handler = "api_sql"
              /\ reply.cached
              /\ ~reply.regenerate
              /\ LET at == get_postmortem(postmortems, reply.order_id, modelName)
                 IN  at # 0 /\ postmortems[at].report_text = reply.postmortem

\* without a key: api_sql.py has answered the placeholder, not cached
DisabledNeverFailsWitness ==
    /\ AnsweredWithoutKey
    /\ apiKey = Str(<<>>)
    /\ reply.handler = "api_sql"
    /\ reply.generated
    /\ reply.postmortem = LLM_DISABLED
    /\ \E i \in 1..Len(postmortems) : postmortems[i].report_text = LLM_DISABLED

\* without a key: api.py has answered the placeholder
DisabledFromLogsWitness ==
    /\ AnsweredWithoutKey
    /\ reply.handler = "api"
    /\ reply.postmortem = LLM_DISABLED


\* the step answers a request of api_sql.py's post-mortem handler
CacheRequestAnswered ==
    /\ reply' # Unset
    /\ reply'.handler = "api_sql"
    /\ (reply' # reply \/ postmortems' # postmortems)

\* the rows of the other (order_id, model_name) pairs are as they were
OtherReportsKept(oid) ==
    \A i \in 1..Len(postmortems) :
        (postmortems[i].order_id # oid \/ postmortems[i].model_name # modelName) =>
            postmortems'[i] = postmortems[i]

CachedReportWitness ==
    /\ reply # Unset
    /\ reply.cached
    /\ ~falsy(apiKey)
    /\ reply.postmortem = LLM_DISABLED


(***************************************************************************)
(* order-service/main.py: create_order, get_order, list_orders,            *)
(* simulate_inventory_check, simulate_courier_assignment, process_order.   *)
(* Requests are served one at a time; a log record is [level, message].    *)
(***************************************************************************)
MaxClock == 1

\* datetime.now().strftime("%Y%m%d%H%M%S"), one digit per second of the clock
DigitOf == <<"0", "1", "2", "3", "4", "5", "6", "7", "8", "9">>
strftime(t) == <<DigitOf[t + 1]>>

\* "%s" of an int
RECURSIVE str_int(_)
str_int(n) ==
    IF n < 10 THEN <<DigitOf[n + 1]>>
    ELSE str_int(n \div 10) \o <<DigitOf[(n % 10) + 1]>>

\* datetime.now().isoformat(); a request reads the clock for the order id and
\* for created_at within the same second
isoformat(t) == <<"T", DigitOf[t + 1]>>

\* request bodies (OrderCreate)
OrderInputs ==
    { [customer_name |-> <<"A">>, product_id |-> <<"P", "1">>, quantity |-> 1,
       delivery_address |-> <<"X">>],
      [customer_name |-> <<"B">>, product_id |-> <<"P", "2">>, quantity |-> 2,
       delivery_address |-> <<"Y">>] }

\* random.randint(100, 999)
CourierNumbers == {100, 999}

Record(level, text) == [level |-> level, message |-> text]

Order(id, data, status, created) ==
    [order_id |-> id, customer_name |-> data.customer_name,
     product_id |-> data.product_id, quantity |-> data.quantity,
     delivery_address |-> data.delivery_address, status |-> status,
     created_at |-> created]

\* orders_db[order_id] = new_order
put(db, id, order) ==
    [k \in (DOMAIN db) \cup {id} |-> IF k = id THEN order ELSE db[k]]

\* the answer to the caller: the returned order, or the raised HTTPException
Returned200(op, id, order) ==
    [op |-> op, order_id |-> id, code |-> 200, detail |-> <<>>, order |-> order]

Raised(op, id, code, detail) ==
    [op |-> op, order_id |-> id, code |-> code, detail |-> detail, order |-> <<>>]

\* create_order
create_order(db, data, now) ==
    LET id == ORD \o strftime(now)
        new_order == Order(id, data, "CREATED", isoformat(now))
    IN  [db |-> put(db, id, new_order),
         log |-> << Record("INFO", <<"C", "r", "e", "a", "t", "i", "n", "g", " ", "s", "i", "m", "p", "l", "e", " ", "o", "r", "d", "e", "r", " ">> \o id \o <<" ", "f", "o", "r", " ", "c", "u", "s", "t", "o", "m", "e", "r", "=">>
                        \o data.customer_name \o <<",", " ", "p", "r", "o", "d", "u", "c", "t", "=">> \o data.product_id
                        \o <<",", " ", "q", "u", "a", "n", "t", "i", "t", "y", "=">> \o str_int(data.quantity)) >>,
         outcome |-> Returned200("create_order", id, new_order)]

\* simulate_inventory_check: r < 0.2, 0.2 <= r < 0.3, or r >= 0.3
InventoryDraws == {"unavailable", "insufficient", "ok"}

simulate_inventory_check(product_id, quantity, draw) ==
    LET checking == Record("INFO", <<"C", "h", "e", "c", "k", "i", "n", "g", " ", "i", "n", "v", "e", "n", "t", "o", "r", "y", " ", "f", "o", "r", " ", "p", "r", "o", "d", "u", "c", "t", "=">> \o product_id
                               \o <<" ", "q", "u", "a", "n", "t", "i", "t", "y", "=">> \o str_int(quantity))
    IN  IF draw = "unavailable"
        THEN [log |-> << checking,
                         Record("ERROR", <<"I", "n", "v", "e", "n", "t", "o", "r", "y", " ", "s", "e", "r", "v", "i", "c", "e", " ", "u", "n", "a", "v", "a", "i", "l", "a", "b", "l", "e", " ", "f", "o", "r", " ", "p", "r", "o", "d", "u", "c", "t", "=">>
                                    \o product_id) >>,
              raised |-> TRUE, code |-> 503, detail |-> <<"I", "n", "v", "e", "n", "t", "o", "r", "y", " ", "s", "e", "r", "v", "i", "c", "e", " ", "u", "n", "a", "v", "a", "i", "l", "a", "b", "l", "e">>]
        ELSE IF draw = "insufficient"
        THEN [log |-> << checking,
                         Record("WARNING", <<"I", "n", "s", "u", "f", "f", "i", "c", "i", "e", "n", "t", " ", "s", "t", "o", "c", "k", " ", "f", "o", "r", " ", "p", "r", "o", "d", "u", "c", "t", "=">> \o product_id) >>,
              raised |-> TRUE, code |-> 400, detail |-> <<"I", "n", "s", "u", "f", "f", "i", "c", "i", "e", "n", "t", " ", "s", "t", "o", "c", "k">>]
        ELSE [log |-> << checking, Record("INFO", <<"I", "n", "v", "e", "n", "t", "o", "r", "y", " ", "O", "K", " ", "f", "o", "r", " ", "p", "r", "o", "d", "u", "c", "t", "=">> \o product_id) >>,
              raised |-> FALSE, code |-> 0, detail |-> <<>>]

\* simulate_courier_assignment: r < 0.15 or not, and the courier number
CourierDraws == {[timeout |-> TRUE, number |-> 100]}
                    \cup {[timeout |-> FALSE, number |-> n] : n \in CourierNumbers}

simulate_courier_assignment(id, address, draw) ==
    LET assigning == Record("INFO", <<"A", "s", "s", "i", "g", "n", "i", "n", "g", " ", "c", "o", "u", "r", "i", "e", "r", " ", "f", "o", "r", " ", "o", "r", "d", "e", "r", "=">> \o id
                                \o <<" ", "t", "o", " ", "a", "d", "d", "r", "e", "s", "s", "=">> \o address)
    IN  IF draw.timeout
        THEN [log |-> << assigning, Record("ERROR", <<"C", "o", "u", "r", "i", "e", "r", " ", "A", "P", "I", " ", "t", "i", "m", "e", "o", "u", "t", " ", "f", "o", "r", " ", "o", "r", "d", "e", "r", "=">> \o id) >>,
              raised |-> TRUE, code |-> 504, detail |-> <<"C", "o", "u", "r", "i", "e", "r", " ", "s", "e", "r", "v", "i", "c", "e", " ", "t", "i", "m", "e", "o", "u", "t">>]
        ELSE [log |-> << assigning,
                         Record("INFO", <<"C", "o", "u", "r", "i", "e", "r", " ">> \o <<"C", "O", "U", "R", "I", "E", "R", "-">> \o str_int(draw.number)
                                    \o <<" ", "a", "s", "s", "i", "g", "n", "e", "d", " ", "t", "o", " ", "o", "r", "d", "e", "r", " ">> \o id) >>,
              raised |-> FALSE, code |-> 0, detail |-> <<>>]

\* an except block that logs no reason
failed_without_detail(id, code, detail) ==
    Record("ERROR", <<"O", "r", "d", "e", "r", " ">> \o id \o <<" ", "f", "a", "i", "l", "e", "d", " ", "d", "u", "r", "i", "n", "g", " ", "p", "r", "o", "c", "e", "s", "s", "i", "n", "g">>)

\* the record logged by the except block of process_order
failed_during_processing(id, code, detail) ==
    Record("ERROR", <<"O", "r", "d", "e", "r", " ">> \o id \o <<" ", "f", "a", "i", "l", "e", "d", " ", "d", "u", "r", "i", "n", "g", " ", "p", "r", "o", "c", "e", "s", "s", "i", "n", "g", ":", " ", "s", "t", "a", "t", "u", "s", "=">> \o str_int(code)
               \o <<" ", "d", "e", "t", "a", "i", "l", "=">> \o detail)

\* process_order
process_order(db, data, now, inventory_draw, courier_draw) ==
    LET id == ORD \o PROC \o strftime(now)
        processing == Record("INFO", <<"P", "r", "o", "c", "e", "s", "s", "i", "n", "g", " ", "o", "r", "d", "e", "r", " ">> \o id \o <<" ", "f", "o", "r", " ", "c", "u", "s", "t", "o", "m", "e", "r", "=">>
                                 \o data.customer_name \o <<",", " ", "p", "r", "o", "d", "u", "c", "t", "=">> \o data.product_id
                                 \o <<",", " ", "q", "u", "a", "n", "t", "i", "t", "y", "=">> \o str_int(data.quantity))
        inventory == simulate_inventory_check(data.product_id, data.quantity, inventory_draw)
        courier == simulate_courier_assignment(id, data.delivery_address, courier_draw)
        new_order == Order(id, data, "CONFIRMED", isoformat(now))
    IN  IF inventory.raised
        THEN [db |-> db,
              log |-> <<processing>> \o inventory.log
                          \o <<failed_during_processing(id, inventory.code, inventory.detail)>>,
              outcome |-> Raised("process_order", id, inventory.code, inventory.detail)]
        ELSE IF courier.raised
        THEN [db |-> db,
              log |-> <<processing>> \o inventory.log \o courier.log
                          \o <<failed_during_processing(id, courier.code, courier.detail)>>,
              outcome |-> Raised("process_order", id, courier.code, courier.detail)]
        ELSE [db |-> put(db, id, new_order),
              log |-> <<processing>> \o inventory.log \o courier.log
                          \o << Record("INFO", <<"O", "r", "d", "e", "r", " ">> \o id
                                           \o <<" ", "p", "r", "o", "c", "e", "s", "s", "e", "d", " ", "s", "u", "c", "c", "e", "s", "s", "f", "u", "l", "l", "y", " ", "(", "C", "O", "N", "F", "I", "R", "M", "E", "D", ")">>) >>,
              outcome |-> Returned200("process_order", id, new_order)]

\* get_order
get_order(db, id) ==
    IF id \notin DOMAIN db
    THEN [log |-> << Record("WARNING", <<"O", "r", "d", "e", "r", " ">> \o id \o <<" ", "n", "o", "t", " ", "f", "o", "u", "n", "d">>) >>,
          outcome |-> Raised("get_order", id, 404, <<"O", "r", "d", "e", "r", " ", "n", "o", "t", " ", "f", "o", "u", "n", "d">>)]
    ELSE [log |-> << Record("INFO", <<"R", "e", "t", "u", "r", "n", "i", "n", "g", " ", "o", "r", "d", "e", "r", " ">> \o id) >>,
          outcome |-> Returned200("get_order", id, db[id])]

\* list_orders
list_orders(db) ==
    [log |-> << Record("INFO", <<"L", "i", "s", "t", "i", "n", "g", " ", "a", "l", "l", " ", "o", "r", "d", "e", "r", "s", ",", " ", "t", "o", "t", "a", "l", "=">> \o str_int(Cardinality(DOMAIN db))) >>,
     outcome |-> [op |-> "list_orders", order_id |-> <<>>, code |-> 200, detail |-> <<>>,
                  order |-> [total |-> Cardinality(DOMAIN db), orders |-> db]]]

\* the order ids a caller may ask for
AskedIds == {ORD \o strftime(0), ORD \o PROC \o strftime(0), ORD \o PROC \o strftime(1)}

\* POST /orders
CreateOrder ==
    /\ \E data \in OrderInputs :
          LET out == create_order(orders_db, data, clock)
          IN  /\ orders_db' = out.db
              /\ oslog' = out.log
              /\ outcome' = out.outcome
    /\ UNCHANGED clock
    /\ UNCHANGED <<pc, message, order_id, failure_detail, root_cause, logfile,
                   sortMemo, incidents, runs, firstRun, table, kpi>>
    /\ UNCHANGED <<refreshVars, postmortemVars>>

\* POST /orders/process
ProcessOrder ==
    /\ \E data \in OrderInputs, inventory_draw \in InventoryDraws,
          courier_draw \in CourierDraws :
          LET out == process_order(orders_db, data, clock, inventory_draw, courier_draw)
          IN  /\ orders_db' = out.db
              /\ oslog' = out.log
              /\ outcome' = out.outcome
    /\ UNCHANGED clock
    /\ UNCHANGED <<pc, message, order_id, failure_detail, root_cause, logfile,
                   sortMemo, incidents, runs, firstRun, table, kpi>>
    /\ UNCHANGED <<refreshVars, postmortemVars>>

\* GET /orders/{order_id}
GetOrder ==
    /\ \E id \in AskedIds :
          LET out == get_order(orders_db, id)
          IN  /\ oslog' = out.log
              /\ outcome' = out.outcome
    /\ UNCHANGED <<orders_db, clock>>
    /\ UNCHANGED <<pc, message, order_id, failure_detail, root_cause, logfile,
                   sortMemo, incidents, runs, firstRun, table, kpi>>
    /\ UNCHANGED <<refreshVars, postmortemVars>>

\* GET /orders
ListOrders ==
    /\ oslog' = list_orders(orders_db).log
    /\ outcome' = list_orders(orders_db).outcome
    /\ UNCHANGED <<orders_db, clock>>
    /\ UNCHANGED <<pc, message, order_id, failure_detail, root_cause, logfile,
                   sortMemo, incidents, runs, firstRun, table, kpi>>
    /\ UNCHANGED <<refreshVars, postmortemVars>>

\* a second passes between two requests
Tick ==
    /\ clock < MaxClock
    /\ clock' = clock + 1
    /\ UNCHANGED <<orders_db, oslog, outcome>>
    /\ UNCHANGED <<pc, message, order_id, failure_detail, root_cause, logfile,
                   sortMemo, incidents, runs, firstRun, table, kpi>>
    /\ UNCHANGED <<refreshVars, postmortemVars>>

InitOrders ==
    /\ pc = "ready"
    /\ IdlePure
    /\ IdleEngine

NextOrders == CreateOrder \/ ProcessOrder \/ GetOrder \/ ListOrders \/ Tick

SpecOrders == InitOrders /\ [][NextOrders]_vars


\* places of the records of a log that begin with a text
Lines(log, text) == {i \in 1..Len(log) : StartsWithAt(log[i].message, 1, text)}

\* the text occurs in the message
Occurs(text, msg) ==
    \E i \in 1..(Len(msg) - Len(text) + 1) :
        \A k \in 1..Len(text) : msg[i + k - 1] = text[k]

\* the error records of a log that carry the order id and "detail=<reason>"
FailureLines(log, id, reason) ==
    {i \in 1..Len(log) :
        /\ log[i].level = "ERROR"
        /\ Occurs(id, log[i].message)
        /\ Occurs(DETAIL \o reason, log[i].message)}

\* the step answers a POST /orders/process
ProcessAnswered ==
    /\ outcome' # Unset
    /\ outcome'.op = "process_order"
    /\ <<outcome', oslog', orders_db'>> # <<outcome, oslog, orders_db>>

\* the step answers a POST /orders
CreateAnswered ==
    /\ outcome' # Unset
    /\ outcome'.op = "create_order"
    /\ <<outcome', oslog', orders_db'>> # <<outcome, oslog, orders_db>>

\* C17: no step removes an order id from orders_db; the order stored by
\* create_order has status CREATED; process_order checks the inventory before
\* it assigns a courier, and stores the order, CONFIRMED, exactly when both
\* succeeded; when the inventory check fails no courier is asked for; when a
\* step fails orders_db is unchanged, exactly one error record carries the
\* order id and detail=<reason>, and the caller gets the status and reason of
\* the failed step.
OrderServiceSafety ==
    [][/\ DOMAIN orders_db \subseteq DOMAIN orders_db'
       /\ CreateAnswered =>
             /\ outcome'.order_id \in DOMAIN orders_db'
             /\ orders_db'[outcome'.order_id].status = "CREATED"
             /\ \A id \in DOMAIN orders_db : id # outcome'.order_id => orders_db'[id] = orders_db[id]
       /\ ProcessAnswered =>
             LET q == outcome'
                 log == oslog'
                 checking == Lines(log, <<"C", "h", "e", "c", "k", "i", "n", "g", " ", "i", "n", "v", "e", "n", "t", "o", "r", "y">>)
                 inventory_ok == Lines(log, <<"I", "n", "v", "e", "n", "t", "o", "r", "y", " ", "O", "K">>)
                 assigning == Lines(log, <<"A", "s", "s", "i", "g", "n", "i", "n", "g", " ", "c", "o", "u", "r", "i", "e", "r">>)
                 assigned == Lines(log, <<"C", "o", "u", "r", "i", "e", "r", " ", "C", "O", "U", "R", "I", "E", "R", "-">>)
             IN  /\ checking # {}
                 /\ \A j \in assigning : \E i \in inventory_ok : i < j
                 /\ inventory_ok = {} => assigning = {}
                 /\ orders_db' # orders_db => q.code = 200
                 /\ q.code = 200 =>
                       /\ inventory_ok # {} /\ assigned # {}
                       /\ q.order.status = "CONFIRMED"
                       /\ q.order.order_id = q.order_id
                       /\ orders_db' = put(orders_db, q.order_id, q.order)
                 /\ q.code # 200 =>
                       /\ orders_db' = orders_db
                       /\ assigned = {}
                       /\ Cardinality(FailureLines(log, q.order_id, q.detail)) = 1
                       /\ inventory_ok = {} =>
                             \/ q.code = 503 /\ q.detail = <<"I", "n", "v", "e", "n", "t", "o", "r", "y", " ", "s", "e", "r", "v", "i", "c", "e", " ", "u", "n", "a", "v", "a", "i", "l", "a", "b", "l", "e">>
                             \/ q.code = 400 /\ q.detail = <<"I", "n", "s", "u", "f", "f", "i", "c", "i", "e", "n", "t", " ", "s", "t", "o", "c", "k">>
                       /\ inventory_ok # {} =>
                             q.code = 504 /\ q.detail = <<"C", "o", "u", "r", "i", "e", "r", " ", "s", "e", "r", "v", "i", "c", "e", " ", "t", "i", "m", "e", "o", "u", "t">>]_vars

\* the courier timed out for an order whose id a confirmed order already has,
\* beside an order made by create_order: six records were logged, two of them
\* errors
OrderServiceSafetyWitness ==
    /\ outcome # Unset
    /\ outcome.op = "process_order"
    /\ outcome.code = 504
    /\ outcome.order_id \in DOMAIN orders_db
    /\ orders_db[outcome.order_id].status = "CONFIRMED"
    /\ \E id \in DOMAIN orders_db : orders_db[id].status = "CREATED"
    /\ Len(oslog) = 6
    /\ Cardinality({i \in 1..Len(oslog) : oslog[i].level = "ERROR"}) = 2

\* the inventory check failed: no courier was asked for
InventoryFailedWitness ==
    /\ outcome # Unset
    /\ outcome.op = "process_order"
    /\ outcome.code = 400
    /\ Lines(oslog, <<"A", "s", "s", "i", "g", "n", "i", "n", "g", " ", "c", "o", "u", "r", "i", "e", "r">>) = {}
    /\ Len(oslog) = 4


====
